---------------------------- MODULE Spec2Model ----------------------------
(***************************************************************************)
(* A model of the user-land test manager of KTF, src/lib/ktf_int.cpp:      *)
(* the KernelTestMgr registry (sets, tests, wrappers, handle contexts),    *)
(* its name resolution and enumeration cursor, and the interpreters of     *)
(* query and run responses.                                                *)
(*                                                                         *)
(* A std::string is a sequence of one-character strings, so that           *)
(* concatenation, find_last_of and substr are computed and not assumed.    *)
(* A std::map is a function; its iteration order is the lexicographic      *)
(* order of its keys.  A pointer is a record with a field "null".          *)
(***************************************************************************)
EXTENDS Integers, Sequences, FiniteSets, TLC

VARIABLES
  kmgr,     \* the KernelTestMgr singleton: its fields, the cursor included
  latest,   \* KTF_VERSION_LATEST of the build, a packed 64-bit value
  ret,      \* what the last call returned, wrote and handed to the handler
  hist      \* history: the enumeration pass under way (no program state)

vars == <<kmgr, latest, ret, hist>>

-----------------------------------------------------------------------------
(* std::string *)

\* size_t is modelled 16 bits wide (TLC's integers have 32): what the code
\* relies on holds at every width, npos = SizeT - 1, npos + 1 = 0 and
\* pos >= 0 for every pos; no string of the model is that long.
SizeT == 65536

npos == 65535

US == "_"

\* The character codes that decide std::less<std::string>.
Ord(c) ==
  CASE c = "_" -> 95
    [] c = "a" -> 97
    [] c = "b" -> 98
    [] c = "c" -> 99
    [] c = "p" -> 112
    [] c = "q" -> 113
    [] c = "x" -> 120
    [] c = "y" -> 121
    [] OTHER -> 122

\* The comparison of a map declared with std::greater.
RECURSIVE StrGreater(_, _)
StrGreater(a, b) ==
  IF a = <<>> THEN FALSE
  ELSE IF b = <<>> THEN TRUE
  ELSE IF Ord(Head(a)) # Ord(Head(b)) THEN Ord(Head(a)) > Ord(Head(b))
  ELSE StrGreater(Tail(a), Tail(b))

RECURSIVE StrLess(_, _)
StrLess(a, b) ==
  IF b = <<>> THEN FALSE
  ELSE IF a = <<>> THEN TRUE
  ELSE IF Ord(Head(a)) # Ord(Head(b)) THEN Ord(Head(a)) < Ord(Head(b))
  ELSE StrLess(Tail(a), Tail(b))

\* A find_first_of where find_last_of is meant.
find_last_of_first(s, c) ==
  LET I == {i \in 1..Len(s) : s[i] = c}
  IN  IF I = {} THEN npos
      ELSE (CHOOSE i \in I : \A j \in I : i <= j) - 1

\* s.find_last_of(c): the 0-based index of the last c, or npos.
find_last_of(s, c) ==
  LET I == {i \in 1..Len(s) : s[i] = c}
  IN  IF I = {} THEN npos
      ELSE (CHOOSE i \in I : \A j \in I : j <= i) - 1

\* s.substr(pos, n): pos is a size_t, n is clipped to what is left.
\* pos > size() throws std::out_of_range, which no caller here can reach:
\* pos is 0 or an index of s plus one.
substr(s, pos, n) ==
  LET from == pos % SizeT
      cnt  == IF n > Len(s) - from THEN Len(s) - from ELSE n
  IN  SubSeq(s, from + 1, from + cnt)

-----------------------------------------------------------------------------
(* pointers, maps *)

NULL == [null |-> TRUE]

EmptyMap == [k \in {} |-> NULL]

Put(f, k, v) == [x \in (DOMAIN f) \cup {k} |-> IF x = k THEN v ELSE f[x]]

Erase(f, k) == [x \in (DOMAIN f) \ {k} |-> f[x]]

\* The keys of a std::map in iteration order.
RECURSIVE Keys(_)
Keys(D) ==
  IF D = {} THEN <<>>
  ELSE LET k == CHOOSE x \in D : \A y \in D \ {x} : StrLess(x, y)
       IN  <<k>> \o Keys(D \ {k})

\* A setmap::iterator: a key, or end().
End == [end |-> TRUE, key |-> <<>>]

Begin(f) ==
  IF DOMAIN f = {} THEN End
  ELSE [end |-> FALSE, key |-> Keys(DOMAIN f)[1]]

\* ++it, on the map as it is now.
Incr(f, it) ==
  LET after == {k \in DOMAIN f : StrLess(it.key, k)}
  IN  IF after = {} THEN End
      ELSE [end |-> FALSE, key |-> Keys(after)[1]]

-----------------------------------------------------------------------------
(* class testset *)

testset == [tests |-> EmptyMap, test_names |-> <<>>, wrapper |-> EmptyMap,
            setnum |-> 0]

\* sets[setname]: operator[] inserts a default testset when there is none.
SetsAt(m, setname) ==
  IF setname \in DOMAIN m.sets THEN m
  ELSE [m EXCEPT !.sets = Put(m.sets, setname, testset)]

\* ts.tests[testname]: operator[] inserts a null pointer when there is none.
TestsAt(ts, testname) ==
  IF testname \in DOMAIN ts.tests THEN ts
  ELSE [ts EXCEPT !.tests = Put(ts.tests, testname, NULL)]

\* KernelTestMgr::KernelTestMgr().
KernelTestMgr ==
  [sets |-> EmptyMap, test_names |-> <<>>, set_names |-> <<>>,
   kernelsets |-> {}, handle_to_ctxvec |-> EmptyMap,
   cfg_contexts |-> EmptyMap, next_set |-> 0, cur |-> NULL]

-----------------------------------------------------------------------------
(* KernelTestMgr::find_add_set, find_add_test, get_contexts, add_cset *)

\* find_add_set without the lookup in kernelsets: every call is a new set.
find_add_set_always_new(m, setname) ==
  LET m1 == [m EXCEPT !.kernelsets = @ \cup {setname},
                      !.set_names = Append(@, setname)]
      m2 == SetsAt(m1, setname)
  IN  [m2 EXCEPT !.sets[setname].setnum = m.next_set, !.next_set = @ + 1]

find_add_set(m, setname) ==
  LET new_set == setname \notin m.kernelsets
      m1 == IF new_set
            THEN [m EXCEPT !.kernelsets = @ \cup {setname},
                           !.set_names = Append(@, setname)]
            ELSE m
      m2 == SetsAt(m1, setname)
  IN  IF new_set
      THEN [m2 EXCEPT !.sets[setname].setnum = m.next_set, !.next_set = @ + 1]
      ELSE m2

find_add_test(m, setname, testname) ==
  [find_add_set(m, setname) EXCEPT !.test_names = Append(@, testname)]

\* handle_to_ctxvec[id]: operator[] inserts an empty list when there is none.
get_contexts(m, id) ==
  IF id \in DOMAIN m.handle_to_ctxvec THEN m
  ELSE [m EXCEPT !.handle_to_ctxvec = Put(@, id, <<>>)]

add_cset(m, hid, ctxs) ==
  [m EXCEPT !.handle_to_ctxvec = Put(@, hid, ctxs)]

-----------------------------------------------------------------------------
(* KernelTest::KernelTest, KernelTestMgr::add_test *)

\* The context list walked from its end.
RECURSIVE push_names_reversed(_, _, _)
push_names_reversed(names, testname, ctxv) ==
  IF ctxv = <<>> THEN names
  ELSE push_names_reversed(
         Append(names, testname \o <<US>> \o ctxv[Len(ctxv)]),
         testname, SubSeq(ctxv, 1, Len(ctxv) - 1))

\* The entries a new test adds to its set's test_names (lines 448-454).
RECURSIVE push_names(_, _, _)
push_names(names, testname, ctxv) ==
  IF ctxv = <<>> THEN names
  ELSE push_names(Append(names, testname \o <<US>> \o Head(ctxv)),
                  testname, Tail(ctxv))

\* new KernelTest(sn, tn, handle_id): the registry after the constructor.
\* ctxv is no member of the class: it is a history field that keeps the
\* context list the constructor expanded (<<>> for handle id zero).
\* reported_hid is a history field too, the argument handle_id: the member
\* handle_id is in no initialiser and no assignment of the constructor, so
\* the object holds no value for it.
KernelTest(m, sn, tn, handle_id) ==
  LET m1 == find_add_test(m, sn, tn)
      ts == m1.sets[sn]
      m2 == IF handle_id = 0 THEN m1 ELSE get_contexts(m1, handle_id)
      names == IF handle_id = 0 THEN Append(ts.test_names, tn)
               ELSE push_names(ts.test_names, tn, m2.handle_to_ctxvec[handle_id])
      bound == tn \in DOMAIN ts.wrapper
      this == [null |-> FALSE, setname |-> sn, testname |-> tn,
               setnum |-> ts.setnum,
               testnum |-> Cardinality((DOMAIN ts.tests) \cup {tn}),
               user_test |-> IF bound THEN ts.wrapper[tn] ELSE "NULL",
               ctxv |-> IF handle_id = 0 THEN <<>>
                        ELSE m2.handle_to_ctxvec[handle_id],
               reported_hid |-> handle_id]
  IN  [m2 EXCEPT !.sets[sn] =
         [ts EXCEPT !.tests = Put(ts.tests, tn, this),
                    !.test_names = names,
                    !.wrapper = IF bound THEN Erase(ts.wrapper, tn)
                                ELSE ts.wrapper]]

\* A call other than get_test_names: the pass under way, if any, is no
\* longer one over an unchanged registry when the call changes the registry.
Touched ==
  hist' = [hist EXCEPT !.dirty = @ \/ (~kmgr.cur.null /\ kmgr' # kmgr)]

add_test(setname, tname, handle_id) ==
  /\ kmgr' = KernelTest(kmgr, setname, tname, handle_id)
  /\ ret' = [op |-> "add_test", setname |-> setname, tname |-> tname,
             handle_id |-> handle_id]
  /\ Touched
  /\ UNCHANGED latest

-----------------------------------------------------------------------------
(* KernelTestMgr::add_wrapper *)

add_wrapper_on(m, setname, testname, tcb) ==
  LET m1 == SetsAt(m, setname)
      ts == TestsAt(m1.sets[setname], testname)
      kt == ts.tests[testname]
  IN  IF ~kt.null
      THEN [m1 EXCEPT !.sets[setname] =
              [ts EXCEPT !.tests[testname].user_test = tcb]]
      ELSE [m1 EXCEPT !.sets[setname] =
              [ts EXCEPT !.wrapper = Put(ts.wrapper, testname, tcb)]]

add_wrapper(setname, testname, tcb) ==
  /\ kmgr' = add_wrapper_on(kmgr, setname, testname, tcb)
  /\ ret' = [op |-> "add_wrapper", setname |-> setname,
             testname |-> testname, tcb |-> tcb]
  /\ Touched
  /\ UNCHANGED latest

-----------------------------------------------------------------------------
(* KernelTestMgr::find_test *)

\* The while loop of lines 304-313.  pos is a size_t, so "pos >= 0" never
\* ends it: it ends only by finding a test.  With pos = npos the candidate
\* is the whole name again (substr(0, npos)), whose lookup has failed
\* already, and the next pos is the one the loop started with while the map
\* holds every entry the first round inserted: the loop repeats for ever.
RECURSIVE find_test_loop(_, _, _, _)
find_test_loop(m, setname, testname, pos) ==
  LET tname == substr(testname, 0, pos)
      ctx   == substr(testname, pos + 1, npos)
      m1    == SetsAt(m, setname)
      ts    == TestsAt(m1.sets[setname], tname)
      m2    == [m1 EXCEPT !.sets[setname] = ts]
      kt    == ts.tests[tname]
  IN  IF ~kt.null THEN [m |-> m2, kt |-> kt, ctx |-> ctx, hung |-> FALSE]
      ELSE IF pos = npos THEN [m |-> m2, kt |-> NULL, ctx |-> ctx, hung |-> TRUE]
      ELSE find_test_loop(m2, setname, testname, find_last_of(tname, US))

find_test_on(m, setname, testname) ==
  LET m1 == SetsAt(m, setname)
      ts == TestsAt(m1.sets[setname], testname)
      m2 == [m1 EXCEPT !.sets[setname] = ts]
      kt == ts.tests[testname]
  IN  IF ~kt.null THEN [m |-> m2, kt |-> kt, ctx |-> <<>>, hung |-> FALSE]
      ELSE IF DOMAIN m2.handle_to_ctxvec = {}
      THEN [m |-> m2, kt |-> NULL, ctx |-> <<>>, hung |-> FALSE]
      ELSE find_test_loop(m2, setname, testname, find_last_of(testname, US))

find_test(setname, testname) ==
  LET r == find_test_on(kmgr, setname, testname)
  IN  /\ kmgr' = r.m
      /\ ret' = [op |-> "find_test", setname |-> setname,
                 testname |-> testname, kt |-> r.kt, ctx |-> r.ctx,
                 hung |-> r.hung]
      /\ Touched
      /\ UNCHANGED latest

\* A call that never returns: the process makes no further step.
Hung == ret.op \in {"find_test", "configure_context_for_test"} /\ ret.hung

-----------------------------------------------------------------------------
(* KernelTestMgr::get_test_names *)

\* The while loop of lines 365-370 from position it.  The condition reads
\* cur->it->second before it compares cur->it with sets.end(): at end() the
\* read is of no element (oob) and yields g, whatever lies there; the
\* comparison then ends the loop.
\* The filter loop stopping at a set without kernel names.
RECURSIVE skip_loop_named(_, _, _, _)
skip_loop_named(m, it, g, acc) ==
  IF it.end
  THEN [it |-> it, skipped |-> acc.skipped, log |-> acc.log,
        oob |-> TRUE, cond |-> g /\ FALSE]
  ELSE IF DOMAIN m.sets[it.key].wrapper # {}
          /\ m.sets[it.key].test_names # <<>>
  THEN skip_loop_named(m, Incr(m.sets, it), g,
                       [skipped |-> Append(acc.skipped, it.key),
                        log |-> acc.log])
  ELSE [it |-> it, skipped |-> acc.skipped, log |-> acc.log,
        oob |-> FALSE, cond |-> FALSE]

RECURSIVE skip_loop(_, _, _, _)
skip_loop(m, it, g, acc) ==
  IF it.end
  THEN [it |-> it, skipped |-> acc.skipped, log |-> acc.log,
        oob |-> TRUE, cond |-> g /\ FALSE]
  ELSE IF DOMAIN m.sets[it.key].wrapper # {}
  THEN skip_loop(m, Incr(m.sets, it), g,
                 [skipped |-> Append(acc.skipped, it.key),
                  log |-> IF m.sets[it.key].test_names = <<>>
                          THEN Append(acc.log, it.key) ELSE acc.log])
  ELSE [it |-> it, skipped |-> acc.skipped, log |-> acc.log,
        oob |-> FALSE, cond |-> FALSE]

get_test_names_on(m, g) ==
  LET start == IF m.cur.null THEN Begin(m.sets) ELSE m.cur.it
      name0 == IF m.cur.null THEN <<>> ELSE m.cur.setname
      l == skip_loop(m, start, g, [skipped |-> <<>>, log |-> <<>>])
  IN  IF l.it.end
      THEN [m |-> [m EXCEPT !.cur = NULL], v |-> <<>>, reset |-> TRUE,
            setname |-> <<>>, start |-> start, fresh |-> m.cur.null,
            skipped |-> l.skipped, log |-> l.log, oob |-> l.oob]
      ELSE [m |-> [m EXCEPT !.cur = [null |-> FALSE,
                                     it |-> Incr(m.sets, l.it),
                                     setname |-> l.it.key]],
            v |-> m.sets[l.it.key].test_names, reset |-> FALSE,
            setname |-> l.it.key, start |-> start, fresh |-> m.cur.null,
            skipped |-> l.skipped, log |-> l.log, oob |-> l.oob]

get_test_names ==
  \E g \in BOOLEAN :
    LET r == get_test_names_on(kmgr, g)
    IN  /\ kmgr' = r.m
        /\ ret' = [op |-> "get_test_names", v |-> r.v, reset |-> r.reset,
                   setname |-> r.setname, start |-> r.start,
                   fresh |-> r.fresh, skipped |-> r.skipped,
                   log |-> r.log, oob |-> r.oob]
        /\ hist' = LET h == IF r.fresh THEN [pass |-> <<>>, dirty |-> FALSE]
                            ELSE hist
                   IN  IF r.reset THEN h
                       ELSE [h EXCEPT !.pass = Append(@, r.setname)]
        /\ UNCHANGED latest

-----------------------------------------------------------------------------
(* netlink attributes *)

\* A u32 payload is its two 16-bit halves <<high, low>> (TLC's integers
\* have 32 bits); an int that is assigned one is its two's complement value.
U32(n) == <<0, n>>

ToInt(u) == IF u[1] >= 32768 THEN (u[1] - 65536) * 65536 + u[2]
            ELSE u[1] * 65536 + u[2]

Attr(type, val) == [type |-> type, val |-> val]

\* A packed version is its four 16-bit fields <<major, minor, micro, build>>.
MAJOR == 1

MINOR == 2

MICRO == 3

BUILD == 4

KTF_VERSION(field, v) == v[field]

\* "Version 0.1.0.0 did not report version back from the kernel" (line 709).
LegacyVersion == <<0, 1, 0, 0>>

-----------------------------------------------------------------------------
(* KernelTestMgr::add_configurable_context, parse_one_set, parse_query *)

ConfigurableContext(name, type_id, hid, cfg_stat) ==
  [name |-> name, handle_id |-> hid, type_id |-> type_id,
   cfg_stat |-> cfg_stat]

add_configurable_context(m, ctx, type_id, hid, cfg_stat) ==
  LET old == IF ctx \in DOMAIN m.cfg_contexts THEN m.cfg_contexts[ctx]
             ELSE <<>>
  IN  [m EXCEPT !.cfg_contexts =
         Put(@, ctx, Append(old, ConfigurableContext(ctx, type_id, hid,
                                                     cfg_stat)))]

\* nla_for_each_nested of parse_one_set; st holds m, handle_id and rc.
RECURSIVE parse_one_set(_, _, _)
parse_one_set(st, setname, attrs) ==
  IF attrs = <<>> THEN st
  ELSE LET nla == Head(attrs)
       IN  CASE nla.type = "KTF_A_HID" ->
                  parse_one_set([st EXCEPT !.handle_id = nla.val],
                                setname, Tail(attrs))
             [] nla.type = "KTF_A_STR" ->
                  parse_one_set(
                    [st EXCEPT !.m = KernelTest(st.m, setname, nla.val,
                                                st.handle_id),
                               !.handle_id = 0],
                    setname, Tail(attrs))
             [] OTHER -> [st EXCEPT !.rc = "NL_SKIP"]

\* The inner loop of lines 753-767 over one handle's context list: the
\* switch has no default, a tag it does not know is passed over.
RECURSIVE parse_contexts(_, _)
parse_contexts(st, attrs) ==
  IF attrs = <<>> THEN st
  ELSE LET nla2 == Head(attrs)
       IN  CASE nla2.type = "KTF_A_STR" ->
                  parse_contexts([st EXCEPT !.ctx = nla2.val,
                                            !.contexts = Append(@, nla2.val)],
                                 Tail(attrs))
             [] nla2.type = "KTF_A_NUM" ->
                  parse_contexts([st EXCEPT !.type_id = nla2.val],
                                 Tail(attrs))
             [] nla2.type = "KTF_A_STAT" ->
                  parse_contexts(
                    [st EXCEPT !.m = add_configurable_context(
                                       st.m, st.ctx, st.type_id,
                                       st.handle_id, ToInt(nla2.val))],
                    Tail(attrs))
             [] OTHER -> parse_contexts(st, Tail(attrs))

\* The loop of lines 747-777 over KTF_A_HLIST.
RECURSIVE parse_hlist(_, _)
parse_hlist(st, attrs) ==
  IF attrs = <<>> THEN st
  ELSE LET nla == Head(attrs)
       IN  CASE nla.type = "KTF_A_HID" ->
                  parse_hlist([st EXCEPT !.handle_id = nla.val], Tail(attrs))
             [] nla.type = "KTF_A_LIST" ->
                  LET s1 == parse_contexts(st, nla.val)
                  IN  parse_hlist(
                        [s1 EXCEPT !.m = add_cset(s1.m, s1.handle_id,
                                                  s1.contexts),
                                   !.handle_id = 0,
                                   !.contexts = <<>>],
                        Tail(attrs))
             [] OTHER -> [st EXCEPT !.rc = "NL_SKIP"]

\* The loop of lines 792-807 over KTF_A_LIST; st holds m, setname and rc.
RECURSIVE parse_sets(_, _)
parse_sets(st, attrs) ==
  IF attrs = <<>> THEN st
  ELSE LET nla == Head(attrs)
       IN  CASE nla.type = "KTF_A_STR" ->
                  parse_sets([st EXCEPT !.setname = nla.val,
                                        !.m = find_add_set(st.m, nla.val)],
                             Tail(attrs))
             [] nla.type = "KTF_A_TEST" ->
                  LET s1 == parse_one_set([m |-> st.m, handle_id |-> 0,
                                           rc |-> "NL_OK"],
                                          st.setname, nla.val)
                  IN  IF s1.rc # "NL_OK"
                      THEN [st EXCEPT !.m = s1.m, !.rc = s1.rc]
                      ELSE parse_sets(
                             [st EXCEPT !.m = find_add_set(s1.m, st.setname)],
                             Tail(attrs))
             [] OTHER -> [st EXCEPT !.rc = "NL_SKIP"]

\* The compatibility rule reading the major field only.
is_compatible_major(local, kernel_version) ==
  KTF_VERSION(MAJOR, local) = KTF_VERSION(MAJOR, kernel_version)

is_compatible(local, kernel_version) ==
  /\ KTF_VERSION(MAJOR, local) = KTF_VERSION(MAJOR, kernel_version)
  /\ KTF_VERSION(MINOR, local) = KTF_VERSION(MINOR, kernel_version)

\* parse_query(msg, attrs): attrs is the record of the top-level attributes,
\* each a pointer.  Returns the registry, the return value and the note
\* written to stderr.
parse_query_on(m, local, attrs) ==
  LET kernel_version == IF attrs.KTF_A_VERSION.null THEN LegacyVersion
                        ELSE attrs.KTF_A_VERSION.val
      differs == kernel_version # local
      compat  == is_compatible(local, kernel_version)
      note    == IF ~differs THEN "none"
                 ELSE IF compat THEN "Note" ELSE "Error"
      h0 == [m |-> m, handle_id |-> 0, type_id |-> 0, contexts |-> <<>>,
             ctx |-> <<>>, rc |-> "NL_OK"]
      h1 == IF attrs.KTF_A_HLIST.null THEN h0
            ELSE parse_hlist(h0, attrs.KTF_A_HLIST.val)
      l0 == [m |-> h1.m, setname |-> <<>>, rc |-> "NL_OK"]
      l1 == IF attrs.KTF_A_LIST.null THEN l0
            ELSE parse_sets(l0, attrs.KTF_A_LIST.val)
  IN  IF differs /\ ~compat THEN [m |-> m, rc |-> "NL_SKIP", note |-> note]
      ELSE IF h1.rc # "NL_OK" THEN [m |-> h1.m, rc |-> h1.rc, note |-> note]
      ELSE IF attrs.KTF_A_NUM.null THEN [m |-> h1.m, rc |-> "-1", note |-> note]
      ELSE [m |-> l1.m, rc |-> l1.rc, note |-> note]

parse_query(attrs) ==
  LET r == parse_query_on(kmgr, latest, attrs)
  IN  /\ kmgr' = r.m
      /\ ret' = [op |-> "parse_query", attrs |-> attrs, rc |-> r.rc,
                 note |-> r.note]
      /\ Touched
      /\ UNCHANGED latest

-----------------------------------------------------------------------------
(* parse_result *)

\* The loop of lines 831-863; st holds the locals and the calls of
\* handle_test made so far.
RECURSIVE parse_result_list(_, _)
parse_result_list(st, attrs) ==
  IF attrs = <<>> THEN st
  ELSE LET nla == Head(attrs)
       IN  CASE nla.type = "KTF_A_STAT" ->
                  LET result == ToInt(nla.val)
                      s1 == [st EXCEPT
                               !.handled = Append(@, [result |-> st.result,
                                                      file |-> st.file,
                                                      line |-> st.line,
                                                      report |-> st.report]),
                               !.result = result]
                  IN  parse_result_list(
                        IF result # 0
                        THEN [s1 EXCEPT !.assert_cnt = @ + result]
                        ELSE [s1 EXCEPT !.fail_cnt = @ + 1,
                                        !.assert_cnt = @ + 1],
                        Tail(attrs))
             [] nla.type = "KTF_A_FILE" ->
                  parse_result_list([st EXCEPT !.file = nla.val], Tail(attrs))
             [] nla.type = "KTF_A_NUM" ->
                  parse_result_list([st EXCEPT !.line = ToInt(nla.val)],
                                    Tail(attrs))
             [] nla.type = "KTF_A_STR" ->
                  parse_result_list([st EXCEPT !.report = nla.val],
                                    Tail(attrs))
             [] OTHER -> [st EXCEPT !.rc = "NL_SKIP"]

\* parse_result returning at the end of the list, the last test not handled.
parse_result_unflushed(attrs) ==
  LET s0 == [assert_cnt |-> 0, fail_cnt |-> 0, result |-> -1, line |-> 0,
             file |-> "no_file", report |-> "no_report", handled |-> <<>>,
             rc |-> "NL_OK"]
  IN  IF attrs.KTF_A_LIST.null THEN s0
      ELSE parse_result_list(s0, attrs.KTF_A_LIST.val)

parse_result_on(attrs) ==
  LET s0 == [assert_cnt |-> 0, fail_cnt |-> 0, result |-> -1, line |-> 0,
             file |-> "no_file", report |-> "no_report", handled |-> <<>>,
             rc |-> "NL_OK"]
      s1 == IF attrs.KTF_A_LIST.null THEN s0
            ELSE parse_result_list(s0, attrs.KTF_A_LIST.val)
  IN  IF attrs.KTF_A_LIST.null \/ s1.rc # "NL_OK" THEN s1
      ELSE [s1 EXCEPT !.handled = Append(@, [result |-> s1.result,
                                             file |-> s1.file,
                                             line |-> s1.line,
                                             report |-> s1.report])]

parse_result(attrs) ==
  LET r == parse_result_on(attrs)
  IN  /\ ret' = [op |-> "parse_result", attrs |-> attrs, rc |-> r.rc,
                 assert_cnt |-> r.assert_cnt, fail_cnt |-> r.fail_cnt,
                 handled |-> r.handled]
      /\ UNCHANGED <<kmgr, latest, hist>>

-----------------------------------------------------------------------------
(* ConfigurableContext::Configure, find_contexts, configure_context *)

\* The netlink calls of a request, in the order they are made, are kept in
\* the field trace of what the request returns, the messages put on the
\* socket in the field sent.
\* Configure waiting for an answer after the acknowledgement.
Configure_receiving(c, local, data, ack) ==
  [sent |-> <<[KTF_A_TYPE |-> "KTF_CT_CTX_CFG", KTF_A_VERSION |-> local,
               KTF_A_STR |-> c.name, KTF_A_HID |-> c.handle_id,
               KTF_A_DATA |-> data]>>,
   trace |-> <<"nl_send_auto_complete", "nl_wait_for_ack",
               "nl_recvmsgs_default">>,
   err |-> ack]

Configure(c, local, data, ack) ==
  [sent |-> <<[KTF_A_TYPE |-> "KTF_CT_CTX_CFG", KTF_A_VERSION |-> local,
               KTF_A_STR |-> c.name, KTF_A_HID |-> c.handle_id,
               KTF_A_DATA |-> data]>>,
   trace |-> <<"nl_send_auto_complete", "nl_wait_for_ack">>,
   err |-> ack]

find_contexts(m, ctx) ==
  IF ctx \notin DOMAIN m.cfg_contexts THEN <<>> ELSE m.cfg_contexts[ctx]

\* A fatal gtest assertion that fails returns from the function: failure
\* names the one that did, "none" when all held.
Failed(assertion) == [failure |-> assertion, sent |-> <<>>, trace |-> <<>>]

\* configure_context taking the first record of the name, however many.
configure_context_first(m, local, context, type_id, data, ack) ==
  LET ct == find_contexts(m, context)
  IN  IF ~(Len(ct) >= 1) THEN Failed("no context found")
      ELSE IF type_id # ct[1].type_id THEN Failed("type_id")
      ELSE LET r == Configure(ct[1], local, data, ack)
           IN  [failure |-> IF r.err = 0 THEN "none" ELSE "Configure",
                sent |-> r.sent, trace |-> r.trace]

configure_context_on(m, local, context, type_id, data, ack) ==
  LET ct == find_contexts(m, context)
  IN  IF ~(Len(ct) >= 1) THEN Failed("no context found")
      ELSE IF Len(ct) # 1 THEN Failed("More than one context")
      ELSE IF type_id # ct[1].type_id THEN Failed("type_id")
      ELSE LET r == Configure(ct[1], local, data, ack)
           IN  [failure |-> IF r.err = 0 THEN "none" ELSE "Configure",
                sent |-> r.sent, trace |-> r.trace]

configure_context(context, type_id, ack) ==
  LET r == configure_context_on(kmgr, latest, context, type_id, "data", ack)
  IN  /\ ret' = [op |-> "configure_context", context |-> context,
                 type_id |-> type_id, ack |-> ack, failure |-> r.failure,
                 sent |-> r.sent, trace |-> r.trace]
      /\ UNCHANGED <<kmgr, latest, hist>>

\* configure_context_for_test.  g is what the read of kt->handle_id at line
\* 661 yields, the member having never been written.
configure_context_for_test_on(m, local, setname, testname, type_id, data, ack, g) ==
  LET f == find_test_on(m, setname, testname)
      ct == find_contexts(f.m, f.ctx)
      handle_id == g
      match == {i \in 1..Len(ct) : ct[i].handle_id = handle_id}
      it == CHOOSE i \in match : \A j \in match : i <= j
      out(r) == [m |-> f.m, kt |-> f.kt, ctx |-> f.ctx, hung |-> f.hung,
                 failure |-> r.failure, sent |-> r.sent, trace |-> r.trace]
  IN  IF f.hung THEN out(Failed("none"))
      ELSE IF f.kt.null THEN out(Failed("Could not find test"))
      ELSE IF handle_id = 0 THEN out(Failed("does not have a context"))
      ELSE IF match = {} THEN out(Failed("unconfigurable context found"))
      ELSE IF type_id # ct[it].type_id THEN out(Failed("type_id"))
      ELSE LET r == Configure(ct[it], local, data, ack)
           IN  out([failure |-> IF r.err = 0 THEN "none" ELSE "Configure",
                    sent |-> r.sent, trace |-> r.trace])

configure_context_for_test(setname, testname, type_id, ack) ==
  \E g \in {0, 1, 2} :
    LET r == configure_context_for_test_on(kmgr, latest, setname, testname,
                                           type_id, "data", ack, g)
    IN  /\ kmgr' = r.m
        /\ ret' = [op |-> "configure_context_for_test",
                   setname |-> setname, testname |-> testname,
                   type_id |-> type_id, ack |-> ack, kt |-> r.kt,
                   ctx |-> r.ctx, hung |-> r.hung, failure |-> r.failure,
                   sent |-> r.sent, trace |-> r.trace]
        /\ Touched
        /\ UNCHANGED latest

-----------------------------------------------------------------------------
(* parse_cb, query_testsets, run, set_coverage *)

\* What parse_cb returns for the results of parse_query and parse_result.
OfQuery(r) == [m |-> r.m, rc |-> r.rc, handled |-> <<>>]

OfResult(m, r) == [m |-> m, rc |-> r.rc, handled |-> r.handled]

\* parse_cb(msg): resp is the message nl_recvmsgs_default hands over, the
\* record of its top-level attributes and what genlmsg_parse returns for
\* it.  Returns the registry, the return value and the calls of
\* handle_test.
parse_cb_on(m, local, resp) ==
  IF resp.err < 0 THEN [m |-> m, rc |-> "err", handled |-> <<>>]
  ELSE IF resp.KTF_A_TYPE.null
  THEN [m |-> m, rc |-> "NL_SKIP", handled |-> <<>>]
  ELSE IF resp.KTF_A_TYPE.val = "KTF_CT_QUERY"
  THEN OfQuery(parse_query_on(m, local, resp))
  ELSE IF resp.KTF_A_TYPE.val = "KTF_CT_RUN"
  THEN OfResult(m, parse_result_on(resp))
  ELSE [m |-> m, rc |-> "NL_SKIP", handled |-> <<>>]

\* nl_recvmsgs_default(sock) after the send and the acknowledgement: d is
\* what the dispatch of the answer gave.
Received(d, msg, ack) ==
  [m |-> d.m, sent |-> <<msg>>,
   trace |-> <<"nl_send_auto_complete", "nl_wait_for_ack",
               "nl_recvmsgs_default">>,
   err |-> ack, errno |-> "unchanged", handled |-> d.handled]

\* The requests receiving whatever the acknowledgement was.
Exchange_always(m, local, msg, ack, resp, abort, sets_errno) ==
  Received(parse_cb_on(m, local, resp), msg, ack)

\* The tail all three requests share: the message is sent, the
\* acknowledgement awaited and, unless the request aborts on it, the answer
\* received and dispatched.  errno is "unchanged" or the value assigned.
Exchange(m, local, msg, ack, resp, abort, sets_errno) ==
  IF abort
  THEN [m |-> m, sent |-> <<msg>>,
        trace |-> <<"nl_send_auto_complete", "nl_wait_for_ack">>,
        err |-> ack,
        errno |-> IF sets_errno THEN 0 - ack ELSE "unchanged",
        handled |-> <<>>]
  ELSE Received(parse_cb_on(m, local, resp), msg, ack)

\* The state after the request op that made the exchange r: query_testsets
\* returns the list of set names, set_coverage returns err, run nothing.
Returns(op, ack, resp, r) ==
  /\ kmgr' = r.m
  /\ ret' = [op |-> op, ack |-> ack, resp |-> resp, sent |-> r.sent,
             trace |-> r.trace, errno |-> r.errno, handled |-> r.handled,
             rv |-> IF op = "query_testsets" THEN r.m.set_names
                    ELSE IF op = "set_coverage" THEN r.err
                    ELSE "void"]
  /\ Touched
  /\ UNCHANGED latest

query_testsets(ack, resp) ==
  Returns("query_testsets", ack, resp,
          Exchange(kmgr, latest,
                   [KTF_A_TYPE |-> "KTF_CT_QUERY", KTF_A_VERSION |-> latest],
                   ack, resp, ack < 0, TRUE))

run(kt, context, ack, resp) ==
  Returns("run", ack, resp,
          Exchange(kmgr, latest,
                   IF context # <<>>
                   THEN [KTF_A_TYPE |-> "KTF_CT_RUN",
                         KTF_A_VERSION |-> latest,
                         KTF_A_SNAM |-> kt.setname,
                         KTF_A_TNAM |-> kt.testname, KTF_A_STR |-> context]
                   ELSE [KTF_A_TYPE |-> "KTF_CT_RUN",
                         KTF_A_VERSION |-> latest,
                         KTF_A_SNAM |-> kt.setname,
                         KTF_A_TNAM |-> kt.testname],
                   ack, resp, ack < 0, TRUE))

set_coverage(module, opts, enabled, ack, resp) ==
  Returns("set_coverage", ack, resp,
          Exchange(kmgr, latest,
                   [KTF_A_TYPE |-> IF enabled THEN "KTF_CT_COV_ENABLE"
                                   ELSE "KTF_CT_COV_DISABLE",
                    KTF_A_COVOPT |-> opts, KTF_A_VERSION |-> latest,
                    KTF_A_MOD |-> module],
                   ack, resp, ack # 0, FALSE))

-----------------------------------------------------------------------------
(* direct calls of the registry's public methods *)

call_find_add_set(setname) ==
  /\ kmgr' = find_add_set(kmgr, setname)
  /\ ret' = [op |-> "find_add_set", setname |-> setname,
             setnum |-> kmgr'.sets[setname].setnum]
  /\ Touched
  /\ UNCHANGED latest

call_add_cset(hid, ctxs) ==
  /\ kmgr' = add_cset(kmgr, hid, ctxs)
  /\ ret' = [op |-> "add_cset", hid |-> hid, ctxs |-> ctxs]
  /\ Touched
  /\ UNCHANGED latest

call_add_configurable_context(ctx, type_id, hid, cfg_stat) ==
  /\ kmgr' = add_configurable_context(kmgr, ctx, type_id, hid, cfg_stat)
  /\ ret' = [op |-> "add_configurable_context", ctx |-> ctx,
             type_id |-> type_id, hid |-> hid]
  /\ Touched
  /\ UNCHANGED latest

-----------------------------------------------------------------------------
(* bounds and input domains *)

\* KernelTest objects constructed in a behaviour of SpecNames.
MaxTests == 2

\* KernelTest objects constructed in a behaviour of SpecEnum.
MaxEnumTests == 2

SetNames == {<<"a">>, <<"b">>}

TestNames == {<<"p">>, <<"p", "_", "x">>}

CtxLists == {<<<<"x">>, <<"x", "_", "y">>>>, <<<<"y">>>>}

Callbacks == {"cb1"}

\* The names a caller resolves: every name some set enumerates, and one
\* that names nothing.
Generated(m) ==
  UNION {{m.sets[s].test_names[i] : i \in 1..Len(m.sets[s].test_names)} :
         s \in DOMAIN m.sets}

\* The tests of a set: the keys of its map that hold a KernelTest.
LiveTests(m, s) ==
  IF s \in DOMAIN m.sets
  THEN {t \in DOMAIN m.sets[s].tests : ~m.sets[s].tests[t].null}
  ELSE {}

LocalVersions == {<<1, 2, 0, 0>>, <<0, 1, 0, 0>>}

Init ==
  /\ kmgr = KernelTestMgr
  /\ latest \in LocalVersions
  /\ ret = [op |-> "init"]
  /\ hist = [pass |-> <<>>, dirty |-> FALSE]

\* The registry reads no version: its specifications fix one build.
InitReg == Init /\ latest = <<1, 2, 0, 0>>

-----------------------------------------------------------------------------
(* SpecNames: name generation and resolution in one set *)

NextNames ==
  /\ ~Hung
  /\ \/ \E h \in {1, 2}, l \in CtxLists : call_add_cset(h, l)
     \/ \E t \in TestNames, h \in {0, 1, 2} :
          Len(kmgr.test_names) < MaxTests /\ add_test(<<"a">>, t, h)
     \/ \E n \in Generated(kmgr) \cup {<<"q">>} : find_test(<<"a">>, n)

SpecNames == InitReg /\ [][NextNames]_vars

-----------------------------------------------------------------------------
(* SpecEnum: sets, wrappers and the enumeration cursor *)

NextEnum ==
  /\ ~Hung
  /\ \/ \E s \in SetNames : call_find_add_set(s)
     \/ \E s \in SetNames :
          Len(kmgr.test_names) < MaxEnumTests /\ add_test(s, <<"p">>, 0)
     \/ \E s \in SetNames, t \in {<<"p">>, <<"q">>}, c \in Callbacks :
          add_wrapper(s, t, c)
     \/ \E s \in SetNames : find_test(s, <<"p">>)
     \/ get_test_names

SpecEnum == InitReg /\ [][NextEnum]_vars

-----------------------------------------------------------------------------
(* SpecBind: each test is reported by the kernel once and wrapped once *)

BindTests == {<<"p">>, <<"q">>}

\* A wrapper has been registered for (s, t): it is pending or bound.
Registered(m, s, t) ==
  /\ s \in DOMAIN m.sets
  /\ \/ t \in DOMAIN m.sets[s].wrapper
     \/ /\ t \in DOMAIN m.sets[s].tests
        /\ ~m.sets[s].tests[t].null
        /\ m.sets[s].tests[t].user_test # "NULL"

NextBind ==
  \/ \E s \in SetNames, t \in BindTests :
       /\ ~(s \in DOMAIN kmgr.sets /\ t \in DOMAIN kmgr.sets[s].tests
            /\ ~kmgr.sets[s].tests[t].null)
       /\ add_test(s, t, 0)
  \/ \E s \in SetNames, t \in BindTests, c \in Callbacks :
       /\ ~Registered(kmgr, s, t)
       /\ add_wrapper(s, t, c)

SpecBind == InitReg /\ [][NextBind]_vars

-----------------------------------------------------------------------------
(* SpecQuery: query responses received by builds of two versions *)

\* ConfigurableContext records a behaviour of SpecQuery creates.
MaxCtxRecords == 2

Ptr(v) == [null |-> FALSE, val |-> v]

\* The version attribute of a response: absent, or one of these.
RemoteVersions ==
  {NULL} \cup {Ptr(v) : v \in {<<1, 2, 0, 0>>, <<1, 2, 7, 3>>, <<1, 3, 0, 0>>,
                                <<0, 2, 0, 0>>, <<0, 1, 0, 0>>, <<0, 1, 0, 5>>,
                                <<2, 2, 0, 0>>}}

\* The inventories of the responses: set a with test p; a handle with one
\* configurable context and set b with a test under that handle; the empty
\* set b; a handle table without a set count; a test list, a set list and
\* a context list with a tag the parser does not know.
Inventories ==
  << [KTF_A_HLIST |-> NULL, KTF_A_NUM |-> Ptr(U32(1)),
      KTF_A_LIST |-> Ptr(<<Attr("KTF_A_STR", <<"a">>),
                           Attr("KTF_A_TEST",
                                <<Attr("KTF_A_STR", <<"p">>)>>)>>)],
     [KTF_A_HLIST |-> Ptr(<<Attr("KTF_A_HID", 1),
                            Attr("KTF_A_LIST",
                                 <<Attr("KTF_A_STR", <<"x">>),
                                   Attr("KTF_A_NUM", 7),
                                   Attr("KTF_A_STAT", U32(0))>>)>>),
      KTF_A_NUM |-> Ptr(U32(1)),
      KTF_A_LIST |-> Ptr(<<Attr("KTF_A_STR", <<"b">>),
                           Attr("KTF_A_TEST",
                                <<Attr("KTF_A_HID", 1),
                                  Attr("KTF_A_STR", <<"p">>)>>)>>)],
     [KTF_A_HLIST |-> NULL, KTF_A_NUM |-> Ptr(U32(1)),
      KTF_A_LIST |-> Ptr(<<Attr("KTF_A_STR", <<"b">>)>>)],
     [KTF_A_HLIST |-> Ptr(<<Attr("KTF_A_HID", 2),
                            Attr("KTF_A_LIST",
                                 <<Attr("KTF_A_STR", <<"y">>)>>)>>),
      KTF_A_NUM |-> NULL,
      KTF_A_LIST |-> Ptr(<<Attr("KTF_A_STR", <<"a">>)>>)],
     [KTF_A_HLIST |-> NULL, KTF_A_NUM |-> Ptr(U32(1)),
      KTF_A_LIST |-> Ptr(<<Attr("KTF_A_STR", <<"a">>),
                           Attr("KTF_A_TEST",
                                <<Attr("KTF_A_DATA", 0),
                                  Attr("KTF_A_STR", <<"q">>)>>)>>)],
     [KTF_A_HLIST |-> NULL, KTF_A_NUM |-> Ptr(U32(2)),
      KTF_A_LIST |-> Ptr(<<Attr("KTF_A_STR", <<"a">>),
                           Attr("KTF_A_DATA", 0),
                           Attr("KTF_A_STR", <<"b">>)>>)],
     [KTF_A_HLIST |-> Ptr(<<Attr("KTF_A_HID", 2),
                            Attr("KTF_A_LIST",
                                 <<Attr("KTF_A_STR", <<"y">>),
                                   Attr("KTF_A_DATA", 0),
                                   Attr("KTF_A_STR", <<"x">>)>>)>>),
      KTF_A_NUM |-> Ptr(U32(0)), KTF_A_LIST |-> NULL] >>

Response(version, i) ==
  [KTF_A_VERSION |-> version, KTF_A_HLIST |-> Inventories[i].KTF_A_HLIST,
   KTF_A_NUM |-> Inventories[i].KTF_A_NUM,
   KTF_A_LIST |-> Inventories[i].KTF_A_LIST]

\* The ConfigurableContext records of the registry.
RECURSIVE CtxRecords(_, _)
CtxRecords(m, names) ==
  IF names = {} THEN 0
  ELSE LET n == CHOOSE x \in names : TRUE
       IN  Len(m.cfg_contexts[n]) + CtxRecords(m, names \ {n})

NextQuery ==
  \E version \in RemoteVersions, i \in 1..Len(Inventories) :
    /\ Len(kmgr.test_names) < MaxTests
    /\ CtxRecords(kmgr, DOMAIN kmgr.cfg_contexts) < MaxCtxRecords
    /\ parse_query(Response(version, i))

SpecQuery == Init /\ [][NextQuery]_vars

-----------------------------------------------------------------------------
(* SpecRun: run responses *)

\* Entries of the result list of a run response.
MaxAttrs == 3

\* The entries a result list is made of: statuses 0, 2, 3 and 0xFFFFFFFF,
\* a file name, a line number, a report and a tag parse_result does not
\* know.
ResultAttrs ==
  << Attr("KTF_A_STAT", U32(0)), Attr("KTF_A_STAT", U32(2)),
     Attr("KTF_A_STAT", U32(3)), Attr("KTF_A_STAT", <<65535, 65535>>),
     Attr("KTF_A_FILE", "f.c"), Attr("KTF_A_NUM", U32(7)),
     Attr("KTF_A_STR", "r"), Attr("KTF_A_DATA", 0) >>

\* parse_result reads nothing but its message: what it does with the first
\* response of a process is what it does with any.
NextRun ==
  /\ ret.op = "init"
  /\ \/ parse_result([KTF_A_LIST |-> NULL])
     \/ \E n \in 0..MaxAttrs :
          \E l \in [1..n -> 1..Len(ResultAttrs)] :
            parse_result([KTF_A_LIST |->
                            Ptr([k \in 1..n |-> ResultAttrs[l[k]]])])

SpecRun == Init /\ [][NextRun]_vars

-----------------------------------------------------------------------------
(* SpecConfig: context records and the two configure calls *)

\* What nl_wait_for_ack returns: 0, or a negative error code.
AckCodes == {0, -1}

TypeIds == {7, 8}

NextConfig ==
  /\ ~Hung
  /\ \/ \E h \in {1, 2} : call_add_cset(h, <<<<"x">>>>)
     \/ \E h \in {1, 2} :
          /\ LiveTests(kmgr, <<"a">>) = {}
          /\ add_test(<<"a">>, <<"p">>, h)
     \/ \E h \in {1, 2} :
          /\ CtxRecords(kmgr, DOMAIN kmgr.cfg_contexts) < MaxCtxRecords
          /\ call_add_configurable_context(<<"x">>, 7, h, 0)
     \/ \E c \in {<<"x">>, <<"y">>}, t \in TypeIds, ack \in AckCodes :
          configure_context(c, t, ack)
     \/ \E n \in {<<"p", "_", "x">>, <<"q">>}, t \in TypeIds,
           ack \in AckCodes :
          configure_context_for_test(<<"a">>, n, t, ack)

SpecConfig == InitReg /\ [][NextConfig]_vars

-----------------------------------------------------------------------------
(* SpecChannel: the requests and the answers of the kernel *)

Answer(err, type, attrs) ==
  [err |-> err, KTF_A_TYPE |-> type, KTF_A_VERSION |-> attrs.KTF_A_VERSION,
   KTF_A_HLIST |-> attrs.KTF_A_HLIST, KTF_A_NUM |-> attrs.KTF_A_NUM,
   KTF_A_LIST |-> attrs.KTF_A_LIST]

NoAttrs ==
  [KTF_A_VERSION |-> NULL, KTF_A_HLIST |-> NULL, KTF_A_NUM |-> NULL,
   KTF_A_LIST |-> NULL]

\* What the kernel answers: two inventories, two result lists, a message
\* of another type, one without a type and one genlmsg_parse rejects.
Answers ==
  << Answer(0, Ptr("KTF_CT_QUERY"), Response(Ptr(<<1, 2, 0, 0>>), 1)),
     Answer(0, Ptr("KTF_CT_QUERY"), Response(Ptr(<<1, 2, 0, 0>>), 2)),
     Answer(0, Ptr("KTF_CT_RUN"),
            [NoAttrs EXCEPT !.KTF_A_LIST =
               Ptr(<<Attr("KTF_A_STAT", U32(2))>>)]),
     Answer(0, Ptr("KTF_CT_RUN"),
            [NoAttrs EXCEPT !.KTF_A_LIST =
               Ptr(<<Attr("KTF_A_STAT", U32(0)), Attr("KTF_A_FILE", "f.c")>>)]),
     Answer(0, Ptr("KTF_CT_COV_ENABLE"), NoAttrs),
     Answer(0, NULL, NoAttrs),
     Answer(-1, NULL, NoAttrs) >>

NextChannel ==
  \E ack \in AckCodes, i \in 1..Len(Answers) :
    /\ (~Answers[i].KTF_A_TYPE.null
        /\ Answers[i].KTF_A_TYPE.val = "KTF_CT_QUERY")
         => /\ Len(kmgr.test_names) < MaxTests
            /\ CtxRecords(kmgr, DOMAIN kmgr.cfg_contexts) < MaxCtxRecords
    /\ \/ query_testsets(ack, Answers[i])
       \/ \E s \in DOMAIN kmgr.sets :
            \E t \in LiveTests(kmgr, s), c \in {<<>>, <<"x">>} :
              run(kmgr.sets[s].tests[t], c, ack, Answers[i])
       \/ \E enabled \in BOOLEAN :
            set_coverage("mod", 1, enabled, ack, Answers[i])
       \/ \E t \in TypeIds : configure_context(<<"x">>, t, ack)

SpecChannel == InitReg /\ [][NextChannel]_vars

-----------------------------------------------------------------------------
(* SpecParse: the two interpreters, query and run responses together *)

NextParse == NextQuery \/ NextRun

SpecParse == Init /\ [][NextParse]_vars

-----------------------------------------------------------------------------
(* the claims *)

\* u is name n cut at one of its underscores, or n itself.
CutOf(u, n) ==
  \/ u = n
  \/ /\ Len(u) < Len(n)
     /\ SubSeq(n, 1, Len(u)) = u
     /\ n[Len(u) + 1] = US

\* find_test has resolved the name it was given to test t with context c.
Resolved(t, c) ==
  /\ ~ret.hung
  /\ ~ret.kt.null
  /\ ret.kt.testname = t
  /\ ret.kt = kmgr.sets[ret.setname].tests[t]
  /\ ret.ctx = c

\* C1 as claimed: find_test(s, t_c) returns the record of t and context c
\* for every test t of s and every context c its constructor expanded,
\* whatever the names and whatever other tests the set holds.
C1_ResolutionInvertsGeneration ==
  ret.op = "find_test" =>
    \A t \in LiveTests(kmgr, ret.setname) :
      LET kt == kmgr.sets[ret.setname].tests[t]
      IN  \A i \in 1..Len(kt.ctxv) :
            ret.testname = t \o <<US>> \o kt.ctxv[i] =>
              Resolved(t, kt.ctxv[i])

\* C1 as amended: the same, for the names t_c that no other test of the
\* set shadows: no other test is named t_c, or t_c cut at an underscore to
\* the right of t.
C1_ResolutionOfUnshadowedNames ==
  ret.op = "find_test" =>
    \A t \in LiveTests(kmgr, ret.setname) :
      LET kt == kmgr.sets[ret.setname].tests[t]
          shadowed == \E u \in LiveTests(kmgr, ret.setname) \ {t} :
                        Len(u) > Len(t) /\ CutOf(u, ret.testname)
      IN  \A i \in 1..Len(kt.ctxv) :
            (ret.testname = t \o <<US>> \o kt.ctxv[i] /\ ~shadowed) =>
              Resolved(t, kt.ctxv[i])

\* C1's case: p_x_y is resolved to test p_x, whose name holds an underscore,
\* with context y, in a set that holds test p too.
C1_Witness ==
  /\ ret.op = "find_test"
  /\ ret.testname = <<"p", "_", "x", "_", "y">>
  /\ <<"p">> \in LiveTests(kmgr, ret.setname)
  /\ <<"p", "_", "x">> \in LiveTests(kmgr, ret.setname)
  /\ <<"y">> = kmgr.sets[ret.setname].tests[<<"p", "_", "x">>].ctxv[1]
  /\ Resolved(<<"p", "_", "x">>, <<"y">>)

\* C2: a test created with a handle id that owns [c1..cn] appends exactly
\* t_c1 .. t_cn, in that order, to its set's test_names; a test created
\* with handle id zero appends exactly its bare name.
C2_ExpandedNames ==
  [][ret'.op = "add_test" =>
       LET s == ret'.setname
           t == ret'.tname
           h == ret'.handle_id
           old == IF s \in DOMAIN kmgr.sets THEN kmgr.sets[s].test_names
                  ELSE <<>>
           L == IF h \in DOMAIN kmgr.handle_to_ctxvec
                THEN kmgr.handle_to_ctxvec[h] ELSE <<>>
       IN  kmgr'.sets[s].test_names =
             old \o (IF h = 0 THEN <<t>>
                     ELSE [i \in 1..Len(L) |-> t \o <<US>> \o L[i]])]_vars

\* C2's case: a test was created under a handle that owns two contexts, in
\* a set that had names already.
C2_Witness ==
  /\ ret.op = "add_test"
  /\ ret.handle_id # 0
  /\ Len(kmgr.handle_to_ctxvec[ret.handle_id]) = 2
  /\ LET names == kmgr.sets[ret.setname].test_names
         L == kmgr.handle_to_ctxvec[ret.handle_id]
     IN  /\ Len(names) >= 3
         /\ names[Len(names) - 1] = ret.tname \o <<US>> \o L[1]
         /\ names[Len(names)] = ret.tname \o <<US>> \o L[2]

\* The position of x in a sequence that holds it.
IndexOf(seq, x) == CHOOSE i \in 1..Len(seq) : seq[i] = x

Count(seq, x) == Cardinality({i \in 1..Len(seq) : seq[i] = x})

\* C3 as claimed: a test with a kernel test and a wrapper registration ends
\* the same in every interleaving of the calls: callback bound, no pending
\* entry, and the ordinals of the interleaving that creates the kernel tests
\* first, where a set's ordinal is its place in set_names and a test's
\* ordinal its place among the tests of its set.
C3_BindingOrderIndependent ==
  \A s \in DOMAIN kmgr.sets :
    \A t \in LiveTests(kmgr, s) :
      LET kt == kmgr.sets[s].tests[t]
      IN  Registered(kmgr, s, t) =>
            /\ kt.user_test \in Callbacks
            /\ t \notin DOMAIN kmgr.sets[s].wrapper
            /\ kt.setnum = IndexOf(kmgr.set_names, s) - 1
            /\ kt.testnum = IndexOf(kmgr.sets[s].test_names, t)

\* C4: a find_add_set of a name the registry has listed returns the ordinal
\* the set has, leaves next_set and set_names alone, and set_names never
\* holds a name twice.
C4_FindAddSetIdempotent ==
  /\ [](\A i, j \in 1..Len(kmgr.set_names) :
          kmgr.set_names[i] = kmgr.set_names[j] => i = j)
  /\ [][(/\ ret'.op = "find_add_set"
         /\ \/ Count(kmgr.set_names, ret'.setname) > 0
            \/ ret.op = "find_add_set" /\ ret.setname = ret'.setname)
        => /\ ret'.setnum = kmgr.sets[ret'.setname].setnum
           /\ kmgr'.next_set = kmgr.next_set
           /\ kmgr'.set_names = kmgr.set_names]_vars

\* C4's case: find_add_set was called for a set that had its ordinal from
\* an earlier call, after a second set was created.
C4_Witness ==
  /\ ret.op = "find_add_set"
  /\ ret.setnum = 0
  /\ kmgr.next_set = 2
  /\ Len(kmgr.set_names) = 2

\* A set with a pending wrapper entry and no kernel-originated name.
Speculative(m, k) ==
  DOMAIN m.sets[k].wrapper # {} /\ m.sets[k].test_names = <<>>

\* C5: no call of get_test_names returns a speculative set or makes it the
\* current set name, and the call writes one diagnostic for each
\* speculative set it passes over, and no other.
C5_EnumerationSkip ==
  ret.op = "get_test_names" =>
    LET PassedSpeculative(k) ==
          /\ ~ret.start.end
          /\ ~StrLess(k, ret.start.key)
          /\ ret.reset \/ StrLess(k, ret.setname)
          /\ Speculative(kmgr, k)
    IN  /\ ~ret.reset => ~Speculative(kmgr, ret.setname)
        /\ ~kmgr.cur.null => ~Speculative(kmgr, kmgr.cur.setname)
        /\ ret.log = SelectSeq(Keys(DOMAIN kmgr.sets), PassedSpeculative)

\* C5's case: a call passed over a speculative set, with its diagnostic,
\* and returned the set after it.
C5_Witness ==
  /\ ret.op = "get_test_names"
  /\ ~ret.reset
  /\ Len(ret.log) = 1
  /\ Speculative(kmgr, ret.log[1])
  /\ ret.v # <<>>

\* C6: a pass over an unchanged registry, from a fresh cursor to
\* the call that finds the end, returns every set with a non-empty name
\* list exactly once, pending wrapper entries or not.
C6_OnlySpeculativeSkipped ==
  (ret.op = "get_test_names" /\ ret.reset /\ ~hist.dirty) =>
    \A s \in DOMAIN kmgr.sets :
      kmgr.sets[s].test_names # <<>> => Count(hist.pass, s) = 1

\* C7 as claimed: the sets of a pass over an unchanged registry come in
\* the order of set_names, the order of their registration (stated for
\* the registered sets that have names).
C7_RegistrationOrder ==
  ~hist.dirty =>
    \A i, j \in 1..Len(hist.pass) :
      (/\ i < j
       /\ Count(kmgr.set_names, hist.pass[i]) > 0
       /\ Count(kmgr.set_names, hist.pass[j]) > 0
       /\ kmgr.sets[hist.pass[i]].test_names # <<>>
       /\ kmgr.sets[hist.pass[j]].test_names # <<>>)
      => IndexOf(kmgr.set_names, hist.pass[i])
           < IndexOf(kmgr.set_names, hist.pass[j])

\* Lexicographic order of two names by character code.
RECURSIVE LexBefore(_, _)
LexBefore(a, b) ==
  /\ b # <<>>
  /\ \/ a = <<>>
     \/ Ord(a[1]) < Ord(b[1])
     \/ a[1] = b[1] /\ LexBefore(Tail(a), Tail(b))

\* C7 as amended: the sets of a pass come in ascending lexicographic
\* order of their names.
C7_NameOrder ==
  \A i, j \in 1..Len(hist.pass) :
    i < j => LexBefore(hist.pass[i], hist.pass[j])

\* C7's case: a pass returned the names of set a and then those of set b,
\* which was registered before a.
C7_Witness ==
  /\ hist.pass = <<<<"a">>, <<"b">>>>
  /\ kmgr.set_names = <<<<"b">>, <<"a">>>>
  /\ kmgr.sets[<<"a">>].test_names # <<>>
  /\ kmgr.sets[<<"b">>].test_names # <<>>
  /\ ~hist.dirty

\* C8 as claimed: get_test_names returns an empty list only when it has
\* passed the last set and reset the cursor, and never while a set with a
\* non-empty name list lies ahead of the cursor.
C8_EmptyMeansExhaustion ==
  (ret.op = "get_test_names" /\ ret.v = <<>>) =>
    /\ ret.reset
    /\ \A k \in DOMAIN kmgr.sets :
         (~ret.start.end /\ ~StrLess(k, ret.start.key))
           => kmgr.sets[k].test_names = <<>>

\* Every entry of a nested list carries one of the tags given.
TagsIn(list, tags) == \A k \in 1..Len(list) : list[k].type \in tags

\* A response with a set count and none but known tags in its lists.
WellFormed(attrs) ==
  /\ ~attrs.KTF_A_NUM.null
  /\ attrs.KTF_A_HLIST.null
       \/ LET hl == attrs.KTF_A_HLIST.val
          IN  /\ TagsIn(hl, {"KTF_A_HID", "KTF_A_LIST"})
              /\ \A k \in 1..Len(hl) :
                   hl[k].type = "KTF_A_LIST" =>
                     TagsIn(hl[k].val,
                            {"KTF_A_STR", "KTF_A_NUM", "KTF_A_STAT"})
  /\ attrs.KTF_A_LIST.null
       \/ LET sl == attrs.KTF_A_LIST.val
          IN  /\ TagsIn(sl, {"KTF_A_STR", "KTF_A_TEST"})
              /\ \A k \in 1..Len(sl) :
                   sl[k].type = "KTF_A_TEST" =>
                     TagsIn(sl[k].val, {"KTF_A_HID", "KTF_A_STR"})

\* The value of the last entry tagged tag before entry k of list, or dflt.
LastBefore(list, k, tag, dflt) ==
  LET S == {j \in 1..(k - 1) : list[j].type = tag}
  IN  IF S = {} THEN dflt
      ELSE list[CHOOSE j \in S : \A h \in S : h <= j].val

\* The handle id in force at entry k of a handle table: the last one given
\* since the last context list, or zero.
HidAt(hl, k) ==
  LET L == {j \in 1..(k - 1) : hl[j].type = "KTF_A_LIST"}
      from == IF L = {} THEN 0 ELSE CHOOSE j \in L : \A h \in L : h <= j
      H == {j \in (from + 1)..(k - 1) : hl[j].type = "KTF_A_HID"}
  IN  IF H = {} THEN 0
      ELSE hl[CHOOSE j \in H : \A h \in H : h <= j].val

\* The registry m holds the inventory of the response: its sets are
\* listed, its tests are tests of their sets, and each handle has the last
\* context list the response gives for it.
InventoryIn(m, attrs) ==
  /\ attrs.KTF_A_LIST.null
       \/ LET sl == attrs.KTF_A_LIST.val
          IN  \A k \in 1..Len(sl) :
                /\ sl[k].type = "KTF_A_STR" =>
                     /\ Count(m.set_names, sl[k].val) = 1
                     /\ sl[k].val \in DOMAIN m.sets
                /\ sl[k].type = "KTF_A_TEST" =>
                     \A j \in 1..Len(sl[k].val) :
                       sl[k].val[j].type = "KTF_A_STR" =>
                         sl[k].val[j].val
                           \in LiveTests(m, LastBefore(sl, k, "KTF_A_STR",
                                                       <<>>))
  /\ attrs.KTF_A_HLIST.null
       \/ LET hl == attrs.KTF_A_HLIST.val
          IN  \A k \in 1..Len(hl) :
                (/\ hl[k].type = "KTF_A_LIST"
                 /\ \A j \in (k + 1)..Len(hl) :
                      hl[j].type = "KTF_A_LIST" => HidAt(hl, j) # HidAt(hl, k))
                => /\ HidAt(hl, k) \in DOMAIN m.handle_to_ctxvec
                   /\ m.handle_to_ctxvec[HidAt(hl, k)]
                        = LET v == hl[k].val
                          IN  [n \in 1..Cardinality(
                                       {j \in 1..Len(v) :
                                          v[j].type = "KTF_A_STR"})
                               |-> v[CHOOSE j \in 1..Len(v) :
                                       /\ v[j].type = "KTF_A_STR"
                                       /\ Cardinality(
                                            {h \in 1..j :
                                               v[h].type = "KTF_A_STR"}) = n
                                    ].val]

\* C9: a parse_query of a response that reports a version leaves the
\* registry as it was and skips the message when the reported major or
\* minor field differs from the local one; when both are equal, whatever
\* the micro and build fields, a well-formed response is parsed to its end
\* and the registry holds its inventory.
C9_VersionCompatibility ==
  [][(ret'.op = "parse_query" /\ ~ret'.attrs.KTF_A_VERSION.null) =>
       LET v == ret'.attrs.KTF_A_VERSION.val
       IN  IF v[1] = latest[1] /\ v[2] = latest[2]
           THEN /\ ret'.note # "Error"
                /\ WellFormed(ret'.attrs) =>
                     /\ ret'.rc = "NL_OK"
                     /\ InventoryIn(kmgr', ret'.attrs)
           ELSE /\ kmgr' = kmgr
                /\ ret'.rc = "NL_SKIP"
                /\ ret'.note = "Error"]_vars

\* C9's case: the build of version 1.2.0.0 has parsed a response of version
\* 1.2.7.3, has written the note, and holds the handle, the set and the
\* test of the response.
C9_Witness ==
  /\ latest = <<1, 2, 0, 0>>
  /\ ret.op = "parse_query"
  /\ ~ret.attrs.KTF_A_VERSION.null
  /\ ret.attrs.KTF_A_VERSION.val = <<1, 2, 7, 3>>
  /\ ret.note = "Note"
  /\ ret.rc = "NL_OK"
  /\ kmgr.set_names = <<<<"b">>>>
  /\ LiveTests(kmgr, <<"b">>) = {<<"p">>}
  /\ kmgr.sets[<<"b">>].test_names = <<<<"p", "_", "x">>>>
  /\ 1 \in DOMAIN kmgr.handle_to_ctxvec

\* The statuses of a result list, as the ints they are read into.
RECURSIVE Statuses(_)
Statuses(list) ==
  IF list = <<>> THEN <<>>
  ELSE IF Head(list).type = "KTF_A_STAT"
       THEN <<ToInt(Head(list).val)>> \o Statuses(Tail(list))
       ELSE Statuses(Tail(list))

RECURSIVE SumPositive(_)
SumPositive(st) ==
  IF st = <<>> THEN 0
  ELSE (IF Head(st) > 0 THEN Head(st) ELSE 0) + SumPositive(Tail(st))

NonPositive(st) == Cardinality({k \in 1..Len(st) : st[k] <= 0})

\* C10: after parse_result of a list of known entries the assertion counter
\* is the sum of the positive statuses plus the number of statuses that are
\* zero or negative, and the failure counter is that number.
C10_RunAccounting ==
  (/\ ret.op = "parse_result"
   /\ ~ret.attrs.KTF_A_LIST.null
   /\ ret.rc = "NL_OK") =>
    LET st == Statuses(ret.attrs.KTF_A_LIST.val)
    IN  /\ ret.assert_cnt = SumPositive(st) + NonPositive(st)
        /\ ret.fail_cnt = NonPositive(st)

\* The place of the k-th status entry of a result list.
StatAt(list, k) ==
  CHOOSE i \in 1..Len(list) :
    /\ list[i].type = "KTF_A_STAT"
    /\ Cardinality({j \in 1..i : list[j].type = "KTF_A_STAT"}) = k

\* The entries tagged tag that follow the k-th status entry and come before
\* the next one: what the response gives for check k.
GivenFor(list, k, tag) ==
  {i \in (StatAt(list, k) + 1)..Len(list) :
     /\ list[i].type = tag
     /\ \A j \in StatAt(list, k)..i :
          list[j].type = "KTF_A_STAT" => j = StatAt(list, k)}

Last(S) == CHOOSE i \in S : \A j \in S : j <= i

\* C11: parse_result of a list of n status entries and known tags only
\* calls the handler n+1 times; call k+1 passes the k-th status, and the
\* file, line and report the response gives for that check; the last
\* status is passed by the call after the loop.
C11_ResultDelivery ==
  (/\ ret.op = "parse_result"
   /\ ~ret.attrs.KTF_A_LIST.null
   /\ TagsIn(ret.attrs.KTF_A_LIST.val,
             {"KTF_A_STAT", "KTF_A_FILE", "KTF_A_NUM", "KTF_A_STR"})) =>
    LET list == ret.attrs.KTF_A_LIST.val
        n == Len(Statuses(list))
    IN  /\ ret.rc = "NL_OK"
        /\ Len(ret.handled) = n + 1
        /\ \A k \in 1..n :
             LET call == ret.handled[k + 1]
                 files == GivenFor(list, k, "KTF_A_FILE")
                 lines == GivenFor(list, k, "KTF_A_NUM")
                 reports == GivenFor(list, k, "KTF_A_STR")
             IN  /\ call.result = Statuses(list)[k]
                 /\ files # {} => call.file = list[Last(files)].val
                 /\ lines # {} => call.line = ToInt(list[Last(lines)].val)
                 /\ reports # {} => call.report = list[Last(reports)].val

\* C11's case: a response of two checks, the first with a file name; the
\* handler was called three times, the second call with the first status
\* and its file, the third with the last status.
C11_Witness ==
  /\ ret.op = "parse_result"
  /\ ret.rc = "NL_OK"
  /\ Len(ret.handled) = 3
  /\ ret.handled[2].result = 0
  /\ ret.handled[2].file = "f.c"
  /\ ret.handled[3].result = 2

\* C12: configure_context puts a configure request on the socket exactly
\* when one record is registered under the name and its type id is the one
\* given; with no record it fails as not found, with more than one as
\* ambiguous, with another type id on the type id, each time with no call
\* on the socket.
C12_ConfigureContext ==
  ret.op = "configure_context" =>
    LET ct == IF ret.context \in DOMAIN kmgr.cfg_contexts
              THEN kmgr.cfg_contexts[ret.context] ELSE <<>>
        one == Len(ct) = 1 /\ ct[1].type_id = ret.type_id
    IN  /\ Len(ret.sent) = (IF one THEN 1 ELSE 0)
        /\ one => /\ ret.sent[1].KTF_A_TYPE = "KTF_CT_CTX_CFG"
                  /\ ret.sent[1].KTF_A_STR = ret.context
                  /\ ret.sent[1].KTF_A_HID = ct[1].handle_id
        /\ ~one => ret.trace = <<>>
        /\ Len(ct) = 0 => ret.failure = "no context found"
        /\ Len(ct) > 1 => ret.failure = "More than one context"
        /\ (Len(ct) = 1 /\ ct[1].type_id # ret.type_id)
             => ret.failure = "type_id"

\* C12's case: a name with two records under two handles was refused as
\* ambiguous, nothing sent.
C12_Witness ==
  /\ ret.op = "configure_context"
  /\ ret.context \in DOMAIN kmgr.cfg_contexts
  /\ Len(kmgr.cfg_contexts[ret.context]) = 2
  /\ kmgr.cfg_contexts[ret.context][1].handle_id
       # kmgr.cfg_contexts[ret.context][2].handle_id
  /\ ret.failure = "More than one context"
  /\ ret.sent = <<>>

\* C13: configure_context_for_test that returns sends a request for the
\* record named as the context resolved from the test name and carrying
\* the handle id the resolved test was reported with, when there is one of
\* the type id given; it sends nothing when the test is not resolved, the
\* test was reported with handle id zero, no such record exists or the
\* type id differs.
C13_ConfigureForTest ==
  (ret.op = "configure_context_for_test" /\ ~ret.hung) =>
    LET ct == IF ret.ctx \in DOMAIN kmgr.cfg_contexts
              THEN kmgr.cfg_contexts[ret.ctx] ELSE <<>>
        hid == ret.kt.reported_hid
        match == IF ret.kt.null \/ hid = 0 THEN {}
                 ELSE {i \in 1..Len(ct) : ct[i].handle_id = hid}
        first == CHOOSE i \in match : \A j \in match : i <= j
    IN  IF match # {} /\ ct[first].type_id = ret.type_id
        THEN /\ Len(ret.sent) = 1
             /\ ret.sent[1].KTF_A_STR = ret.ctx
             /\ ret.sent[1].KTF_A_HID = hid
        ELSE ret.sent = <<>>

\* C14: a query_testsets, run or set_coverage whose acknowledgement is an
\* error receives no answer: the registry stays as it was, the handler is
\* not called, query_testsets and run leave the error in errno and
\* set_coverage returns it, and query_testsets returns the list of set
\* names the registry has.
C14_NegativeAckAborts ==
  [][(ret'.op \in {"query_testsets", "run", "set_coverage"}
      /\ ret'.ack < 0) =>
       /\ ret'.trace = <<"nl_send_auto_complete", "nl_wait_for_ack">>
       /\ kmgr' = kmgr
       /\ ret'.handled = <<>>
       /\ ret'.op \in {"query_testsets", "run"} => ret'.errno = 0 - ret'.ack
       /\ ret'.op = "set_coverage" => ret'.rv = ret'.ack
       /\ ret'.op = "query_testsets" => ret'.rv = kmgr.set_names]_vars

\* C14's case: a run was refused by the acknowledgement while the answer
\* of the kernel was a result list; no handler call, the error in errno.
C14_Witness ==
  /\ ret.op = "run"
  /\ ret.ack = -1
  /\ ~ret.resp.KTF_A_TYPE.null
  /\ ret.resp.KTF_A_TYPE.val = "KTF_CT_RUN"
  /\ ret.handled = <<>>
  /\ ret.errno = 1
  /\ kmgr.set_names # <<>>

\* C15 as claimed: a request of any kind makes one send, one wait for the
\* acknowledgement and, exactly when that is a success, one receive, all
\* within the call.
C15_SingleOutstandingRequest ==
  (ret.op \in {"query_testsets", "run", "set_coverage", "configure_context"}
   /\ ret.sent # <<>>) =>
    /\ Len(ret.sent) = 1
    /\ ret.trace = IF ret.ack = 0
                   THEN <<"nl_send_auto_complete", "nl_wait_for_ack",
                          "nl_recvmsgs_default">>
                   ELSE <<"nl_send_auto_complete", "nl_wait_for_ack">>

\* C15 as amended: query_testsets, run and set_coverage make one send, one
\* wait for the acknowledgement and, exactly when that is a success, one
\* receive; a configure request makes one send and one wait and never a
\* receive; all within the call.
C15_AckThenReceive ==
  (ret.op \in {"query_testsets", "run", "set_coverage", "configure_context"}
   /\ ret.sent # <<>>) =>
    /\ Len(ret.sent) = 1
    /\ ret.trace = IF ret.ack = 0 /\ ret.op # "configure_context"
                   THEN <<"nl_send_auto_complete", "nl_wait_for_ack",
                          "nl_recvmsgs_default">>
                   ELSE <<"nl_send_auto_complete", "nl_wait_for_ack">>

\* C15's case: a configure request was acknowledged and the call returned
\* without a receive.
C15_Witness ==
  /\ ret.op = "configure_context"
  /\ ret.ack = 0
  /\ ret.failure = "none"
  /\ Len(ret.sent) = 1
  /\ ret.trace = <<"nl_send_auto_complete", "nl_wait_for_ack">>

\* C16: a find_test made while a handle has a context list, for a name that
\* neither is a test of the set nor becomes one when cut at one of its
\* underscores, returns, and returns no test.
C16_FailedResolutionTerminates ==
  (/\ ret.op = "find_test"
   /\ DOMAIN kmgr.handle_to_ctxvec # {}
   /\ \A t \in LiveTests(kmgr, ret.setname) : ~CutOf(t, ret.testname)) =>
    /\ ~ret.hung
    /\ ret.kt.null

\* C17: no two sets the registry holds carry the same ordinal, and no step
\* changes the ordinal of a set the registry holds, however the set came
\* to be (find_add_set, add_wrapper or a lookup).
C17_SetOrdinalsUniqueStable ==
  /\ [](\A s, t \in DOMAIN kmgr.sets :
          kmgr.sets[s].setnum = kmgr.sets[t].setnum => s = t)
  /\ [][\A s \in DOMAIN kmgr.sets :
          kmgr'.sets[s].setnum = kmgr.sets[s].setnum]_vars

\* C18: an add_test of a test its set holds leaves the KernelTest of that
\* test as it is, bound callback included, and leaves the name list of the
\* set as it is.
C18_TestCreationIdempotent ==
  [][(ret'.op = "add_test"
      /\ ret'.tname \in LiveTests(kmgr, ret'.setname)) =>
       /\ kmgr'.sets[ret'.setname].tests[ret'.tname]
            = kmgr.sets[ret'.setname].tests[ret'.tname]
       /\ kmgr'.sets[ret'.setname].test_names
            = kmgr.sets[ret'.setname].test_names]_vars

\* C19: the registry holds at most one ConfigurableContext for a context
\* name and a handle id.
C19_ContextRecordsUnique ==
  \A name \in DOMAIN kmgr.cfg_contexts :
    \A i, j \in 1..Len(kmgr.cfg_contexts[name]) :
      kmgr.cfg_contexts[name][i].handle_id
        = kmgr.cfg_contexts[name][j].handle_id => i = j

\* The attributes of a nested list in the order they are met, those of the
\* lists nested in it (whose known tags are inner) included; an attribute
\* whose tag is not known at its place is marked unknown.
RECURSIVE Leaves(_, _, _)
Leaves(list, known, inner) ==
  IF list = <<>> THEN <<>>
  ELSE LET a == Head(list)
       IN  (IF a.type \notin known
            THEN <<[unknown |-> TRUE, type |-> a.type, val |-> <<>>]>>
            ELSE IF a.type \in {"KTF_A_LIST", "KTF_A_TEST"} /\ inner # {}
            THEN Leaves(a.val, inner, {})
            ELSE <<[unknown |-> FALSE, type |-> a.type, val |-> a.val]>>)
           \o Leaves(Tail(list), known, inner)

\* The attributes of a query response: handle table, then set list.
QueryLeaves(attrs) ==
  (IF attrs.KTF_A_HLIST.null THEN <<>>
   ELSE Leaves(attrs.KTF_A_HLIST.val, {"KTF_A_HID", "KTF_A_LIST"},
               {"KTF_A_STR", "KTF_A_NUM", "KTF_A_STAT"}))
  \o (IF attrs.KTF_A_LIST.null THEN <<>>
      ELSE Leaves(attrs.KTF_A_LIST.val, {"KTF_A_STR", "KTF_A_TEST"},
                  {"KTF_A_HID", "KTF_A_STR"}))

ResultLeaves(attrs) ==
  IF attrs.KTF_A_LIST.null THEN <<>>
  ELSE Leaves(attrs.KTF_A_LIST.val,
              {"KTF_A_STAT", "KTF_A_FILE", "KTF_A_NUM", "KTF_A_STR"}, {})

FirstUnknown(lv) ==
  CHOOSE k \in 1..Len(lv) : lv[k].unknown /\ \A j \in 1..(k - 1) : ~lv[j].unknown

\* Every name the registry holds: sets, tests, contexts of handles and of
\* context records.
Names(m) ==
  DOMAIN m.sets
  \cup UNION {DOMAIN m.sets[x].tests : x \in DOMAIN m.sets}
  \cup UNION {{m.handle_to_ctxvec[h][k] : k \in 1..Len(m.handle_to_ctxvec[h])}
              : h \in DOMAIN m.handle_to_ctxvec}
  \cup DOMAIN m.cfg_contexts

\* C20: a response that is parsed and holds, in any of its nested lists, a
\* tag not known there is answered with NL_SKIP and nothing that follows
\* the tag is processed: a query response brings no name into the registry
\* that stands after the tag, a run response has no status after the tag
\* handed to the handler and no call after the loop.
C20_UnknownTagsAbort ==
  [][/\ (/\ ret'.op = "parse_query"
         /\ ret'.note # "Error"
         /\ \E k \in 1..Len(QueryLeaves(ret'.attrs)) :
              QueryLeaves(ret'.attrs)[k].unknown) =>
          LET lv == QueryLeaves(ret'.attrs)
          IN  /\ ret'.rc = "NL_SKIP"
              /\ \A k \in (FirstUnknown(lv) + 1)..Len(lv) :
                   (lv[k].type = "KTF_A_STR" /\ lv[k].val \in Names(kmgr'))
                     => lv[k].val \in Names(kmgr)
     /\ (/\ ret'.op = "parse_result"
         /\ \E k \in 1..Len(ResultLeaves(ret'.attrs)) :
              ResultLeaves(ret'.attrs)[k].unknown) =>
          LET lv == ResultLeaves(ret'.attrs)
          IN  /\ ret'.rc = "NL_SKIP"
              /\ Len(ret'.handled)
                   = Cardinality({k \in 1..(FirstUnknown(lv) - 1) :
                                    lv[k].type = "KTF_A_STAT"})]_vars

\* C21: a parse_query of a response without a version attribute is not
\* skipped for its version, whatever the local version is: a well-formed
\* response is parsed to its end and the registry holds its inventory.
C21_OmittedVersionProceeds ==
  [][(ret'.op = "parse_query" /\ ret'.attrs.KTF_A_VERSION.null) =>
       /\ ret'.note # "Error"
       /\ WellFormed(ret'.attrs) =>
            /\ ret'.rc = "NL_OK"
            /\ InventoryIn(kmgr', ret'.attrs)]_vars

\* C22: find_test, found or not, leaves the registry as it was: the sets,
\* the entries of each set's test map, the ordinals and the cursor are
\* those of before the call.
C22_ResolutionReadOnly ==
  [][ret'.op = "find_test" => kmgr' = kmgr]_vars

\* C23: a get_test_names call reads no set at the past-the-end position;
\* when the registry holds no set, or every set from the cursor on is
\* skipped, it returns the empty list and resets the cursor, and a call
\* made with the cursor reset starts from the first set.
C23_CursorNeverPastEnd ==
  [][ret'.op = "get_test_names" =>
       /\ ~ret'.oob
       /\ (\A k \in DOMAIN kmgr.sets :
             (~ret'.start.end /\ ~StrLess(k, ret'.start.key))
               => DOMAIN kmgr.sets[k].wrapper # {})
            => /\ ret'.reset
               /\ ret'.v = <<>>
               /\ kmgr'.cur.null
       /\ kmgr.cur.null => ret'.start = Begin(kmgr.sets)]_vars

=============================================================================
